---- MODULE Spec2Model ----
(***************************************************************************)
(* State-machine model of the article synchronisation pipeline:            *)
(*   ArticleProcessor.update_articles      (bulk sync, article_processor)  *)
(*   ArticleProcessor._save_articles / _load_existing_articles             *)
(*   ArticleUpdater.update_single_article  (article_updater)               *)
(*   ArticleEmbeddingProcessor.process_articles / remove_from_tracking     *)
(*   PineconeManager.upsert_articles / delete_article                      *)
(* External collaborators (source site, embedding API, vector index, file  *)
(* system) succeed or fail nondeterministically.                           *)
(***************************************************************************)
EXTENDS Integers, Sequences, FiniteSets, TLC

\* ------------------------------------------------------------------ bounds
MaxPages   == 2   \* listing pages of the source site
MaxFaults  == 1   \* injected failures (exceptions, process deaths)
MaxCalls   == 1   \* update_single_article calls in one behaviour
MaxLedger  == 1   \* ledger rows present before the first call
MaxCharts  == 3   \* chart sections in one article page
MaxKeys    == 2   \* keys in one metadata mapping
MaxRecords == 3   \* rows of the frame given to upsert_articles
MaxBatch   == 2   \* largest batch_size given to upsert_articles
MaxText    == 5   \* characters of an article's text
MaxChunk   == 3   \* largest text_chunk_size

Slugs == {"a", "b"}

VARIABLES
    \* ---- environment
    source,            \* the site's listing: sequence of pages, each a sequence of slugs
    store_file,        \* all_articles.json: [st: "absent"|"valid"|"partial", map]
    \* ---- ArticleProcessor instance
    articles,          \* self.articles
    pc,                \* position of the (single) thread of control
    \* ---- update_articles frame
    max_pages, skip_existing, page, total_pages, stubs, idx,
    new_articles, updated_articles,
    \* ---- ArticleEmbeddingProcessor and PineconeManager of the ArticleUpdater
    processed_articles,  \* self.processed_articles: the ledger rows in memory
    tracking_file,       \* embedded_articles.csv: the ledger rows on disk
    index,               \* the remote vector index: slug -> metadata snapshot
    \* ---- update_single_article frame
    url, old_slug, force_reembed, new_slug, content, new_embeddings, result,
    \* ---- bookkeeping of the run (observations, not program state)
    faults, fetched, attempts, start_store, prev,
    calls, failed, index0, index_log,
    before,            \* store and ledger, in memory and on file, when the call began
    \* ---- process_articles frame (called on its own)
    articles_data,     \* the keys of the dict passed in, in iteration order
    item,              \* position of the for loop in articles_data
    skipped, ledger0,  \* observations: slugs skipped, self.processed_articles at entry
    \* ---- update_article_metadata frame
    meta_slug, metadata,
    \* ---- _extract_charts frame
    sections,          \* the chart sections found in the page, in document order
    charts,            \* the list returned
    \* ---- upsert_articles frame
    upsert,            \* [embeddings_df, batch_size, i, batches]: batches is the
                       \* sequence of vector lists handed to index.upsert so far
    \* ---- two ArticleProcessor instances in two processes, one store file
    writers,           \* instance -> [articles, pc, slug, saved]
    last_saver,        \* the instance whose _save_articles completed last (0: none)
    \* ---- _prepare_text_for_embedding called on one article
    prep               \* [text, text_chunk_size, initial_paragraphs, cut]

envVars  == <<source, store_file>>
procVars == <<articles, pc>>
syncVars == <<max_pages, skip_existing, page, total_pages, stubs, idx,
              new_articles, updated_articles>>
obsVars  == <<faults, fetched, attempts, start_store, prev>>
embVars  == <<processed_articles, tracking_file, index>>
updFrame == <<url, old_slug, force_reembed, new_slug, content, new_embeddings, result>>
updObs   == <<calls, failed, index0, index_log, before>>
updVars  == <<embVars, updFrame, updObs>>
embedCall == <<articles_data, item, skipped, ledger0>>
metaCall  == <<meta_slug, metadata>>
chartCall == <<sections, charts>>
writerVars == <<writers, last_saver>>
textCall == <<prep>>
directVars == <<embedCall, metaCall, chartCall, upsert, writerVars, textCall>>
vars     == <<envVars, procVars, syncVars, obsVars, updVars, directVars>>

\* ------------------------------------------------------------------ helpers
Min(x, y) == IF x <= y THEN x ELSE y

Range(s) == {s[i] : i \in 1..Len(s)}

SeqsUpTo(S, n) == UNION {[1..k -> S] : k \in 0..n}

EmptyMap == [s \in {} |-> 0]

\* Optional[int] is a set with at most one element: {} is None.
None == {}
Some(n) == {n}

\* What the site serves for a slug, and an older revision a store may hold.
Content(s) == [slug |-> s, rev |-> "live"]
OldContent(s) == [slug |-> s, rev |-> "old"]

\* Mutant: a record already present is kept.
PutIfAbsent(m, k, v) == [x \in DOMAIN m \cup {k} |-> IF x \in DOMAIN m THEN m[x] ELSE v]

Put(m, k, v) == [x \in DOMAIN m \cup {k} |-> IF x = k THEN v ELSE m[x]]
Del(m, k) == [x \in DOMAIN m \ {k} |-> m[x]]

ValidFile(m) == [st |-> "valid", map |-> m]
PartialFile == [st |-> "partial", map |-> EmptyMap]
AbsentFile == [st |-> "absent", map |-> EmptyMap]

\* Mutant: a missing file is read as a store that knows every slug.
LoadAssumesFile(f) ==
    IF f.st = "absent" THEN [s \in Slugs |-> OldContent(s)] ELSE f.map

\* article_processor.py:55-60
LoadExistingArticles(f) == IF f.st = "absent" THEN EmptyMap ELSE f.map

\* article_processor.py:123  min(get_page_count(), max_pages or float('inf'))
TotalPages(count, mp) ==
    IF mp = None \/ mp = Some(0) THEN count
    ELSE Min(count, CHOOSE n \in mp : TRUE)

\* article_processor.py:132  the stubs whose slug is not in self.articles
NotInStore(listing, store) ==
    LET Unknown(s) == s \notin DOMAIN store
    IN SelectSeq(listing, Unknown)

\* Mutant: the skip_existing filter is lost.
StubsUnfiltered(listing, store, se) == listing

\* article_processor.py:130-145  the list the per-article loop walks
StubsToProcess(listing, store, se) ==
    IF se THEN NotInStore(listing, store) ELSE listing

\* Mutant: without skip_existing only an empty page stops the walk.
StopWalkOnEmptyPage(listing, store, se) ==
    IF se THEN NotInStore(listing, store) = <<>>
    ELSE listing = <<>>

\* article_processor.py:138-145  the two early-stop tests
StopWalk(listing, store, se) ==
    IF se THEN NotInStore(listing, store) = <<>>
    ELSE \A i \in 1..Len(listing) : listing[i] \in DOMAIN store


\* ------------------------------------------------------------------ initial states
\* A listing page holds up to one stub per slug of the universe, in any order,
\* repeats included.
ListingPages == SeqsUpTo(Slugs, Cardinality(Slugs))
Listings == SeqsUpTo(ListingPages, MaxPages)

InitialFiles ==
    {AbsentFile} \cup {ValidFile([s \in K |-> OldContent(s)]) : K \in SUBSET Slugs}

NoPrev == [kind |-> "none", mp |-> None, se |-> FALSE, saved |-> {}]

InitSyncFrame ==
    /\ max_pages = None /\ skip_existing = FALSE
    /\ page = 1 /\ total_pages = 0 /\ stubs = <<>> /\ idx = 1
    /\ new_articles = 0 /\ updated_articles = 0

InitObs ==
    /\ faults = 0
    /\ fetched = <<>> /\ attempts = <<>>
    /\ start_store = articles
    /\ prev = NoPrev

InitUpdFrame ==
    /\ url = <<>> /\ old_slug = None /\ force_reembed = FALSE
    /\ new_slug = "" /\ content = Content("") /\ new_embeddings = <<>>
    /\ result = "none"

\* No update_single_article call has begun.
NoBefore ==
    [articles |-> EmptyMap, store_file |-> AbsentFile,
     tracking_file |-> <<>>, processed_articles |-> <<>>]

InitUpdObs ==
    /\ calls = 0 /\ failed = {} /\ index0 = index /\ index_log = <<>>
    /\ before = NoBefore

\* _prepare_text_for_embedding has not been called.
NoPrep == [text |-> <<>>, text_chunk_size |-> 0, initial_paragraphs |-> <<>>, cut |-> FALSE]

Writers == {1, 2}

\* No instance has been constructed yet.
NoWriters ==
    [w \in Writers |-> [articles |-> EmptyMap, pc |-> "new", slug |-> "", saved |-> {}]]

NoUpsert == [embeddings_df |-> <<>>, batch_size |-> 1, i |-> 0, batches |-> <<>>]

InitDirect ==
    /\ articles_data = <<>> /\ item = 1 /\ skipped = {} /\ ledger0 = <<>>
    /\ meta_slug = "" /\ metadata = {}
    /\ sections = <<>> /\ charts = <<>>
    /\ upsert = NoUpsert
    /\ writers = NoWriters /\ last_saver = 0
    /\ prep = NoPrep

\* ArticleProcessor.__init__ (article_processor.py:47-53) on any store file
\* that an earlier run can have left behind.
InitSync ==
    /\ source \in Listings
    /\ store_file \in InitialFiles
    /\ articles = LoadExistingArticles(store_file)
    /\ pc = "idle"
    /\ InitSyncFrame
    /\ InitObs
    /\ processed_articles = <<>> /\ tracking_file = <<>> /\ index = EmptyMap
    /\ InitUpdFrame
    /\ InitUpdObs
    /\ InitDirect

\* ------------------------------------------------------------------ update_articles
Fault == faults < MaxFaults /\ faults' = faults + 1
NoFault == UNCHANGED faults

Resting ==
    pc \in {"idle", "returned", "raised", "updated", "processed", "metadata_done",
            "upserted"}

\* What the finished (or interrupted) run leaves for the next one to know.
AllOk(as) == \A i \in 1..Len(as) : as[i].ok

SavedSlugs(as) == {as[i].slug : i \in {j \in 1..Len(as) : as[j].saved}}

Interrupted ==
    [kind |-> "crashed", mp |-> max_pages, se |-> skip_existing,
     saved |-> SavedSlugs(attempts)]

Finished(kind) == [NoPrev EXCEPT !.kind = kind]

\* The next call follows a process death: the interrupted job is started again.
Resumes == pc = "idle" /\ prev.kind = "crashed"

PrevOnStart ==
    IF pc = "returned" THEN Finished(IF AllOk(attempts) THEN "scraped_all" ELSE "scrape_failed")
    ELSE IF Resumes THEN prev
    ELSE NoPrev

\* article_processor.py:120-122  entry of update_articles
StartSync(mp, se) ==
    /\ UNCHANGED <<updVars, directVars>>
    /\ Resting
    /\ Resumes => mp = prev.mp /\ se = prev.se
    /\ max_pages' = mp /\ skip_existing' = se
    /\ new_articles' = 0 /\ updated_articles' = 0 /\ page' = 1
    /\ total_pages' = 0 /\ stubs' = <<>> /\ idx' = 1
    /\ pc' = "get_page_count"
    /\ fetched' = <<>> /\ attempts' = <<>>
    /\ start_store' = articles
    /\ prev' = PrevOnStart
    /\ UNCHANGED <<envVars, articles, faults>>

\* article_processor.py:123,125  page count, clamp, first loop test
GetPageCountOk ==
    /\ UNCHANGED <<updVars, directVars>>
    /\ pc = "get_page_count"
    /\ total_pages' = TotalPages(Len(source), max_pages)
    /\ pc' = IF page <= total_pages' THEN "get_articles_on_page" ELSE "returned"
    /\ NoFault
    /\ UNCHANGED <<envVars, articles, max_pages, skip_existing, page, stubs, idx,
                   new_articles, updated_articles, fetched, attempts,
                   start_store, prev>>

\* article_processor.py:67-72 raising inside update_articles (no handler there)
GetPageCountFail ==
    /\ UNCHANGED <<updVars, directVars>>
    /\ pc = "get_page_count"
    /\ Fault
    /\ pc' = "raised"
    /\ UNCHANGED <<envVars, articles, syncVars, fetched, attempts,
                   start_store, prev>>

\* article_processor.py:127-145  fetch one listing page, filter, early stop
GetArticlesOnPageOk ==
    /\ UNCHANGED <<updVars, directVars>>
    /\ pc = "get_articles_on_page"
    /\ IF StopWalk(source[page], articles, skip_existing)
       THEN /\ pc' = "returned"
            /\ fetched' = Append(fetched, [page |-> page, stubs |-> <<>>])
            /\ UNCHANGED <<stubs, idx>>
       ELSE /\ stubs' = StubsToProcess(source[page], articles, skip_existing)
            /\ fetched' = Append(fetched, [page |-> page, stubs |-> stubs'])
            /\ idx' = 1
            /\ pc' = "scrape"
    /\ NoFault
    /\ UNCHANGED <<envVars, articles, max_pages, skip_existing, page, total_pages,
                   new_articles, updated_articles, attempts, start_store, prev>>

\* Mutant: a listing page that cannot be fetched ends the walk quietly.
GetArticlesOnPageFailSwallowed ==
    /\ UNCHANGED <<updVars, directVars>>
    /\ pc = "get_articles_on_page"
    /\ Fault
    /\ pc' = "returned"
    /\ UNCHANGED <<envVars, articles, syncVars, fetched, attempts,
                   start_store, prev>>

\* article_processor.py:74-81 raising inside update_articles (no handler there)
GetArticlesOnPageFail ==
    /\ UNCHANGED <<updVars, directVars>>
    /\ pc = "get_articles_on_page"
    /\ Fault
    /\ pc' = "raised"
    /\ UNCHANGED <<envVars, articles, syncVars, fetched, attempts,
                   start_store, prev>>

\* Mutant: the page number is not advanced after the last stub of a page.
NextStubSamePage ==
    IF idx < Len(stubs)
    THEN /\ idx' = idx + 1
         /\ pc' = "scrape"
         /\ UNCHANGED page
    ELSE /\ page' = page
         /\ idx' = idx
         /\ pc' = "get_articles_on_page"

\* article_processor.py:148,161,125  next stub of the page, else next page, else return
NextStub ==
    IF idx < Len(stubs)
    THEN /\ idx' = idx + 1
         /\ pc' = "scrape"
         /\ UNCHANGED page
    ELSE /\ page' = page + 1
         /\ idx' = idx
         /\ pc' = IF page + 1 <= total_pages THEN "get_articles_on_page" ELSE "returned"

Attempt(ok) == [page |-> page, idx |-> idx, slug |-> stubs[idx], ok |-> ok, saved |-> FALSE]

\* Mutant: the scraped record is never put into self.articles.
ScrapeOkForgets ==
    /\ UNCHANGED <<updVars, directVars>>
    /\ pc = "scrape"
    /\ attempts' = Append(attempts, Attempt(TRUE))
    /\ IF stubs[idx] \in DOMAIN articles
       THEN /\ updated_articles' = updated_articles + 1
            /\ UNCHANGED new_articles
       ELSE /\ new_articles' = new_articles + 1
            /\ UNCHANGED updated_articles
    /\ pc' = "save_open"
    /\ NoFault
    /\ UNCHANGED <<envVars, articles, max_pages, skip_existing, page, total_pages,
                   stubs, idx, fetched, start_store, prev>>

\* Mutant: the new/updated branches are swapped.
ScrapeOkSwapsCounts ==
    /\ UNCHANGED <<updVars, directVars>>
    /\ pc = "scrape"
    /\ attempts' = Append(attempts, Attempt(TRUE))
    /\ IF stubs[idx] \in DOMAIN articles
       THEN /\ new_articles' = new_articles + 1
            /\ UNCHANGED updated_articles
       ELSE /\ updated_articles' = updated_articles + 1
            /\ UNCHANGED new_articles
    /\ articles' = Put(articles, stubs[idx], Content(stubs[idx]))
    /\ pc' = "save_open"
    /\ NoFault
    /\ UNCHANGED <<envVars, max_pages, skip_existing, page, total_pages, stubs, idx,
                   fetched, start_store, prev>>

\* article_processor.py:150-155  scrape succeeded: count, then put into self.articles
ScrapeOk ==
    /\ UNCHANGED <<updVars, directVars>>
    /\ pc = "scrape"
    /\ attempts' = Append(attempts, Attempt(TRUE))
    /\ IF stubs[idx] \in DOMAIN articles
       THEN /\ updated_articles' = updated_articles + 1
            /\ UNCHANGED new_articles
       ELSE /\ new_articles' = new_articles + 1
            /\ UNCHANGED updated_articles
    /\ articles' = Put(articles, stubs[idx], Content(stubs[idx]))
    /\ pc' = "save_open"
    /\ NoFault
    /\ UNCHANGED <<envVars, max_pages, skip_existing, page, total_pages, stubs, idx,
                   fetched, start_store, prev>>

\* Mutant: a failed scrape abandons the rest of the page (break, not continue).
ScrapeFailBreaks ==
    /\ UNCHANGED <<updVars, directVars>>
    /\ pc = "scrape"
    /\ Fault
    /\ attempts' = Append(attempts, Attempt(FALSE))
    /\ page' = page + 1
    /\ pc' = IF page + 1 <= total_pages THEN "get_articles_on_page" ELSE "returned"
    /\ UNCHANGED <<envVars, articles, max_pages, skip_existing, total_pages, stubs, idx,
                   new_articles, updated_articles, fetched, start_store, prev>>

\* article_processor.py:150,157-159  scrape raised: log, continue with the next stub
ScrapeFail ==
    /\ UNCHANGED <<updVars, directVars>>
    /\ pc = "scrape"
    /\ Fault
    /\ attempts' = Append(attempts, Attempt(FALSE))
    /\ NextStub
    /\ UNCHANGED <<envVars, articles, max_pages, skip_existing, total_pages, stubs,
                   new_articles, updated_articles, fetched, start_store, prev>>

\* article_processor.py:64  open(articles_path, 'w') truncates the file
SaveOpenOk ==
    /\ UNCHANGED <<updVars, directVars>>
    /\ pc = "save_open"
    /\ store_file' = PartialFile
    /\ pc' = "save_dump"
    /\ NoFault
    /\ UNCHANGED <<source, articles, syncVars, fetched, attempts, start_store, prev>>

\* article_processor.py:64,157-159  open raised (file untouched): log, continue
SaveOpenFail ==
    /\ UNCHANGED <<updVars, directVars>>
    /\ pc = "save_open"
    /\ Fault
    /\ NextStub
    /\ UNCHANGED <<envVars, articles, max_pages, skip_existing, total_pages, stubs,
                   new_articles, updated_articles, fetched, attempts,
                   start_store, prev>>

MarkSaved(as) == [as EXCEPT ![Len(as)].saved = TRUE]

\* article_processor.py:65  json.dump wrote the whole mapping
SaveDumpOk ==
    /\ UNCHANGED <<updVars, directVars>>
    /\ pc = "save_dump"
    /\ store_file' = ValidFile(articles)
    /\ attempts' = MarkSaved(attempts)
    /\ NextStub
    /\ NoFault
    /\ UNCHANGED <<source, articles, max_pages, skip_existing, total_pages, stubs,
                   new_articles, updated_articles, fetched, start_store, prev>>

\* article_processor.py:65,157-159  the write raised part-way: log, continue
SaveDumpFail ==
    /\ UNCHANGED <<updVars, directVars>>
    /\ pc = "save_dump"
    /\ Fault
    /\ NextStub
    /\ UNCHANGED <<envVars, articles, max_pages, skip_existing, total_pages, stubs,
                   new_articles, updated_articles, fetched, attempts,
                   start_store, prev>>

InSync == pc \in {"get_page_count", "get_articles_on_page", "scrape", "save_open", "save_dump"}

\* Process termination during a bulk sync: memory is lost, the file stays as it is.
Crash ==
    /\ UNCHANGED <<updVars, directVars>>
    /\ InSync
    /\ faults < MaxFaults /\ faults' = faults + 1
    /\ pc' = "dead"
    /\ articles' = EmptyMap
    /\ prev' = Interrupted
    /\ max_pages' = None /\ skip_existing' = FALSE
    /\ page' = 1 /\ total_pages' = 0 /\ stubs' = <<>> /\ idx' = 1
    /\ new_articles' = 0 /\ updated_articles' = 0
    /\ fetched' = <<>> /\ attempts' = <<>>
    /\ start_store' = EmptyMap
    /\ UNCHANGED envVars

\* A new process: ArticleProcessor.__init__ loads the file (article_processor.py:52,55-60).
RestartOk ==
    /\ UNCHANGED <<updVars, directVars>>
    /\ pc = "dead"
    /\ store_file.st # "partial"
    /\ articles' = LoadExistingArticles(store_file)
    /\ pc' = "idle"
    /\ UNCHANGED <<envVars, syncVars, obsVars>>

\* json.load raises on a truncated file (article_processor.py:59): no processor.
RestartFail ==
    /\ UNCHANGED <<updVars, directVars>>
    /\ pc = "dead"
    /\ store_file.st = "partial"
    /\ pc' = "load_error"
    /\ UNCHANGED <<envVars, articles, syncVars, obsVars>>

MaxPagesArgs == {None} \cup {Some(n) : n \in 0..MaxPages}

NextSync ==
    \/ \E mp \in MaxPagesArgs, se \in BOOLEAN : StartSync(mp, se)
    \/ GetPageCountOk
    \/ GetPageCountFail
    \/ GetArticlesOnPageOk
    \/ GetArticlesOnPageFail
    \/ ScrapeOk
    \/ ScrapeFail
    \/ SaveOpenOk
    \/ SaveOpenFail
    \/ SaveDumpOk
    \/ SaveDumpFail
    \/ Crash
    \/ RestartOk
    \/ RestartFail

SpecSync == InitSync /\ [][NextSync]_vars

\* A call of update_articles whose listing fetches succeed and whose process lives:
\* the interpreter keeps executing it, so a step that is possible is taken.
RunStep ==
    \/ GetPageCountOk
    \/ GetArticlesOnPageOk
    \/ ScrapeOk
    \/ ScrapeFail
    \/ SaveOpenOk
    \/ SaveOpenFail
    \/ SaveDumpOk
    \/ SaveDumpFail

NextWalk ==
    \/ \E mp \in MaxPagesArgs, se \in BOOLEAN : StartSync(mp, se)
    \/ RunStep

SpecWalk == InitSync /\ [][NextWalk]_vars /\ WF_vars(RunStep)


\* ------------------------------------------------------------------ update_single_article
\* A string is the sequence of its '/'-separated segments: a bare slug has one.
SiteUrl(slug) == <<"https:", "", "www.economicsobservatory.com", slug>>
Identifiers == {<<s>> : s \in Slugs} \cup {SiteUrl(s) : s \in Slugs}
LastSegment(str) == str[Len(str)]

\* article_updater.py:37
NewSlug(id) == IF Len(id) > 1 THEN LastSegment(id) ELSE id[1]

\* article_updater.py:47-65  the URL whose ArticleInfo is fetched
UrlOf(id) == IF Len(id) > 1 THEN id ELSE SiteUrl(NewSlug(id))

\* article_processor.py:174-175, 90-103  the record scraped from a URL
ScrapedFrom(u) == Content(LastSegment(u))

\* The embedding model of the processor and one used by an earlier configuration.
EmbeddingModel == "text-embedding-3-small"
Models == {EmbeddingModel, "text-embedding-ada-002"}
LedgerRow(slug) == [slug |-> slug, embedding_model |-> EmbeddingModel]

\* embedding_processor.py:173  df[df['slug'] != slug]
RowsWithout(rows, slug) ==
    LET Other(r) == r.slug # slug
    IN SelectSeq(rows, Other)

\* pinecone_manager.py:89-116  every row is upserted under its slug
RECURSIVE UpsertAll(_, _)
UpsertAll(idx0, rows) ==
    IF rows = <<>> THEN idx0
    ELSE UpsertAll(Put(idx0, rows[1].slug, rows[1].metadata), Tail(rows))

UpsertLog(rows) == [i \in 1..Len(rows) |-> [op |-> "upsert", id |-> rows[i].slug]]

InitialLedgers == SeqsUpTo([slug : Slugs, embedding_model : Models], MaxLedger)

\* ArticleUpdater.__init__ (article_updater.py:14-17): the three collaborators
\* load whatever earlier runs left in the store file, the ledger file and the index.
InitUpdate ==
    /\ source = <<>>
    /\ store_file \in InitialFiles
    /\ articles = LoadExistingArticles(store_file)
    /\ pc = "idle"
    /\ InitSyncFrame
    /\ InitObs
    /\ tracking_file \in InitialLedgers
    /\ processed_articles = tracking_file
    /\ index \in {[s \in K |-> OldContent(s)] : K \in SUBSET Slugs}
    /\ InitUpdFrame
    /\ InitUpdObs
    /\ InitDirect

\* article_updater.py:118-120  the outer handler: log, return False
ReturnFalse(step) ==
    /\ pc' = "updated"
    /\ result' = "False"
    /\ failed' = failed \cup {step}

ReturnTrue == pc' = "updated" /\ result' = "True"

\* article_updater.py:35-65  entry of update_single_article: the slug and the URL
\* are derived from the identifier
StartUpdate(id, old, force) ==
    /\ Resting
    /\ calls < MaxCalls
    /\ calls' = calls + 1
    /\ old_slug' = old /\ force_reembed' = force
    /\ new_slug' = NewSlug(id)
    /\ url' = UrlOf(id)
    /\ content' = Content("") /\ new_embeddings' = <<>> /\ result' = "none"
    /\ failed' = {} /\ index0' = index /\ index_log' = <<>>
    /\ before' = [articles |-> articles, store_file |-> store_file,
                  tracking_file |-> tracking_file,
                  processed_articles |-> processed_articles]
    /\ pc' = "u_info"
    /\ UNCHANGED <<envVars, articles, syncVars, directVars, obsVars, embVars>>

\* article_updater.py:47-65  get_article_info_from_url returned
InfoOk ==
    /\ pc = "u_info"
    /\ pc' = "u_scrape"
    /\ UNCHANGED <<envVars, articles, syncVars, directVars, obsVars, embVars, updFrame, updObs>>

\* Mutant: the re-raise of the inner handler escapes update_single_article.
InfoFailEscapes ==
    /\ pc = "u_info"
    /\ Fault
    /\ pc' = "updated"
    /\ result' = "raised"
    /\ failed' = failed \cup {"stub fetch"}
    /\ UNCHANGED <<envVars, articles, syncVars, directVars, fetched, attempts, start_store, prev,
                   embVars, url, old_slug, force_reembed, new_slug, content,
                   new_embeddings, calls, index0, before, index_log>>

\* article_updater.py:53-55, 63-65  it raised: logged, re-raised into the outer handler
InfoFail ==
    /\ pc = "u_info"
    /\ Fault
    /\ ReturnFalse("stub fetch")
    /\ UNCHANGED <<envVars, articles, syncVars, directVars, fetched, attempts, start_store, prev,
                   embVars, url, old_slug, force_reembed, new_slug, content,
                   new_embeddings, calls, index0, before, index_log>>

\* Mutant: the store is rebuilt around the new record.
RenamedAlone(store, new, old, record) == [x \in {new} |-> record]

\* article_updater.py:72-76  put under the new slug, then drop the old slug
Renamed(store, new, old, record) ==
    LET put == Put(store, new, record)
    IN IF old # None /\ (CHOOSE x \in old : TRUE) \in DOMAIN put
       THEN Del(put, CHOOSE x \in old : TRUE)
       ELSE put

\* article_updater.py:69-76  scrape_article_content returned; self.articles updated
UpdScrapeOk ==
    /\ pc = "u_scrape"
    /\ content' = ScrapedFrom(url)
    /\ articles' = Renamed(articles, new_slug, old_slug, content')
    /\ pc' = "u_save_open"
    /\ UNCHANGED <<envVars, syncVars, directVars, obsVars, embVars, url, old_slug,
                   force_reembed, new_slug, new_embeddings, result, updObs>>

UpdScrapeFail ==
    /\ pc = "u_scrape"
    /\ Fault
    /\ ReturnFalse("content scrape")
    /\ UNCHANGED <<envVars, articles, syncVars, directVars, fetched, attempts, start_store, prev,
                   embVars, url, old_slug, force_reembed, new_slug, content,
                   new_embeddings, calls, index0, before, index_log>>

\* article_updater.py:79, article_processor.py:64  open(articles_path, 'w')
UpdSaveOpenOk ==
    /\ pc = "u_save_open"
    /\ store_file' = PartialFile
    /\ pc' = "u_save_dump"
    /\ UNCHANGED <<source, articles, syncVars, directVars, obsVars, embVars, updFrame, updObs>>

UpdSaveOpenFail ==
    /\ pc = "u_save_open"
    /\ Fault
    /\ ReturnFalse("store save")
    /\ UNCHANGED <<envVars, articles, syncVars, directVars, fetched, attempts, start_store, prev,
                   embVars, url, old_slug, force_reembed, new_slug, content,
                   new_embeddings, calls, index0, before, index_log>>

\* article_updater.py:82-87  where the call goes once the store is saved
AfterSave ==
    IF ~force_reembed THEN ReturnTrue /\ UNCHANGED failed
    ELSE /\ pc' = IF old_slug # None THEN "u_remove_old" ELSE "u_remove_new"
         /\ UNCHANGED <<result, failed>>

\* article_updater.py:79-82, article_processor.py:65  json.dump wrote the mapping
UpdSaveDumpOk ==
    /\ pc = "u_save_dump"
    /\ store_file' = ValidFile(articles)
    /\ AfterSave
    /\ UNCHANGED <<source, articles, syncVars, directVars, obsVars, embVars, url, old_slug,
                   force_reembed, new_slug, content, new_embeddings, calls, index0, before,
                   index_log>>

UpdSaveDumpFail ==
    /\ pc = "u_save_dump"
    /\ Fault
    /\ ReturnFalse("store save")
    /\ UNCHANGED <<envVars, articles, syncVars, directVars, fetched, attempts, start_store, prev,
                   embVars, url, old_slug, force_reembed, new_slug, content,
                   new_embeddings, calls, index0, before, index_log>>

\* embedding_processor.py:166-174  remove_from_tracking: the file is read, filtered
\* and written back; self.processed_articles is not touched.
RemoveFromTracking(slug) ==
    /\ tracking_file' = RowsWithout(tracking_file, slug)
    /\ UNCHANGED processed_articles

\* A write of the ledger file that raised left it as it was or truncated.
LedgerWriteFailed == tracking_file' \in {tracking_file, <<>>}

\* article_updater.py:85-86
RemoveOldOk ==
    /\ pc = "u_remove_old"
    /\ RemoveFromTracking(CHOOSE x \in old_slug : TRUE)
    /\ pc' = "u_remove_new"
    /\ UNCHANGED <<envVars, articles, syncVars, directVars, obsVars, index, updFrame, updObs>>

RemoveOldFail ==
    /\ pc = "u_remove_old"
    /\ Fault
    /\ LedgerWriteFailed
    /\ ReturnFalse("ledger removal")
    /\ UNCHANGED <<envVars, articles, syncVars, directVars, fetched, attempts, start_store, prev,
                   processed_articles, index, url, old_slug, force_reembed,
                   new_slug, content, new_embeddings, calls, index0, before, index_log>>

\* article_updater.py:87
RemoveNewOk ==
    /\ pc = "u_remove_new"
    /\ RemoveFromTracking(new_slug)
    /\ pc' = "u_embed"
    /\ UNCHANGED <<envVars, articles, syncVars, directVars, obsVars, index, updFrame, updObs>>

RemoveNewFail ==
    /\ pc = "u_remove_new"
    /\ Fault
    /\ LedgerWriteFailed
    /\ ReturnFalse("ledger removal")
    /\ UNCHANGED <<envVars, articles, syncVars, directVars, fetched, attempts, start_store, prev,
                   processed_articles, index, url, old_slug, force_reembed,
                   new_slug, content, new_embeddings, calls, index0, before, index_log>>

\* embedding_processor.py:124  the skip test of process_articles
AlreadyProcessed(slug, rows, force) ==
    slug \in {rows[i].slug : i \in 1..Len(rows)} /\ ~force

\* embedding_processor.py:133-148  the EmbeddingRecord of one article
EmbeddingRecord(slug, article) ==
    [slug |-> slug, embedding_model |-> EmbeddingModel, metadata |-> article]

\* article_updater.py:94-97, embedding_processor.py:122-157  process_articles on the
\* one article: the embedding came back, the record and the ledger row are appended
\* in memory.
EmbedOk ==
    /\ pc = "u_embed"
    /\ IF AlreadyProcessed(new_slug, processed_articles, force_reembed)
       THEN /\ pc' = "u_pickle"
            /\ UNCHANGED <<new_embeddings, processed_articles>>
       ELSE /\ new_embeddings' = Append(new_embeddings, EmbeddingRecord(new_slug, content))
            /\ processed_articles' = Append(processed_articles, LedgerRow(new_slug))
            /\ pc' = "u_track"
    /\ UNCHANGED <<envVars, articles, syncVars, directVars, obsVars, tracking_file, index,
                   url, old_slug, force_reembed, new_slug, content, result,
                   updObs>>

\* embedding_processor.py:129-130, 160-162  the embedding raised: printed, the
\* article is skipped and process_articles returns an empty frame
EmbedFail ==
    /\ pc = "u_embed"
    /\ ~AlreadyProcessed(new_slug, processed_articles, force_reembed)
    /\ Fault
    /\ failed' = failed \cup {"embedding"}
    /\ pc' = "u_pickle"
    /\ UNCHANGED <<envVars, articles, syncVars, directVars, fetched, attempts, start_store, prev,
                   embVars, updFrame, calls, index0, before, index_log>>

\* embedding_processor.py:158  the ledger file is rewritten from memory
TrackOk ==
    /\ pc = "u_track"
    /\ tracking_file' = processed_articles
    /\ pc' = "u_pickle"
    /\ UNCHANGED <<envVars, articles, syncVars, directVars, obsVars, processed_articles, index,
                   updFrame, updObs>>

\* embedding_processor.py:158, 160-162  the write raised inside process_articles'
\* own handler: the record stays in the returned frame
TrackFail ==
    /\ pc = "u_track"
    /\ Fault
    /\ LedgerWriteFailed
    /\ failed' = failed \cup {"ledger write"}
    /\ pc' = "u_pickle"
    /\ UNCHANGED <<envVars, articles, syncVars, directVars, fetched, attempts, start_store, prev,
                   processed_articles, index, updFrame, calls, index0, before, index_log>>

\* Mutant: the emptiness test of the returned frame is lost.
PickleOkIgnoresEmpty ==
    /\ pc = "u_pickle"
    /\ pc' = "u_upsert"
    /\ UNCHANGED <<envVars, articles, syncVars, directVars, obsVars, embVars, updFrame, updObs>>

\* article_updater.py:99-102, 112-114  snapshot written; empty frame means failure
PickleOk ==
    /\ pc = "u_pickle"
    /\ IF new_embeddings # <<>>
       THEN pc' = "u_upsert" /\ UNCHANGED <<result, failed>>
       ELSE ReturnFalse("embedding")
    /\ UNCHANGED <<envVars, articles, syncVars, directVars, obsVars, embVars, url, old_slug,
                   force_reembed, new_slug, content, new_embeddings, calls, index0, before,
                   index_log>>

PickleFail ==
    /\ pc = "u_pickle"
    /\ Fault
    /\ ReturnFalse("snapshot write")
    /\ UNCHANGED <<envVars, articles, syncVars, directVars, fetched, attempts, start_store, prev,
                   embVars, url, old_slug, force_reembed, new_slug, content,
                   new_embeddings, calls, index0, before, index_log>>

\* article_updater.py:105-111, pinecone_manager.py:64-116  upsert_articles returned
UpsertOk ==
    /\ pc = "u_upsert"
    /\ index' = UpsertAll(index, new_embeddings)
    /\ index_log' = index_log \o UpsertLog(new_embeddings)
    /\ IF old_slug # None
       THEN pc' = "u_delete" /\ UNCHANGED result
       ELSE ReturnTrue
    /\ UNCHANGED <<envVars, articles, syncVars, directVars, obsVars, processed_articles,
                   tracking_file, url, old_slug, force_reembed, new_slug,
                   content, new_embeddings, calls, failed, index0, before>>

\* Mutant: a failed upsert is swallowed and the call goes on to the delete.
UpsertFailGoesOn ==
    /\ pc = "u_upsert"
    /\ Fault
    /\ failed' = failed \cup {"vector upsert"}
    /\ IF old_slug # None
       THEN pc' = "u_delete" /\ UNCHANGED result
       ELSE ReturnTrue
    /\ UNCHANGED <<envVars, articles, syncVars, directVars, fetched, attempts,
                   start_store, prev, embVars, url, old_slug, force_reembed, new_slug,
                   content, new_embeddings, calls, index0, before, index_log>>

\* article_updater.py:105, 118-120  upsert_articles raised: outer handler
UpsertFail ==
    /\ pc = "u_upsert"
    /\ Fault
    /\ ReturnFalse("vector upsert")
    /\ UNCHANGED <<envVars, articles, syncVars, directVars, fetched, attempts, start_store, prev,
                   embVars, url, old_slug, force_reembed, new_slug, content,
                   new_embeddings, calls, index0, before, index_log>>

\* article_updater.py:108-116, pinecone_manager.py:173-175  delete_article returned
DeleteOk ==
    /\ pc = "u_delete"
    /\ index' = Del(index, CHOOSE x \in old_slug : TRUE)
    /\ index_log' = Append(index_log, [op |-> "delete", id |-> CHOOSE x \in old_slug : TRUE])
    /\ ReturnTrue
    /\ UNCHANGED <<envVars, articles, syncVars, directVars, obsVars, processed_articles,
                   tracking_file, url, old_slug, force_reembed, new_slug,
                   content, new_embeddings, calls, failed, index0, before>>

DeleteFail ==
    /\ pc = "u_delete"
    /\ Fault
    /\ ReturnFalse("vector delete")
    /\ UNCHANGED <<envVars, articles, syncVars, directVars, fetched, attempts, start_store, prev,
                   embVars, url, old_slug, force_reembed, new_slug, content,
                   new_embeddings, calls, index0, before, index_log>>

OldSlugArgs == {None} \cup {Some(s) : s \in Slugs}

NextUpdate ==
    \/ \E id \in Identifiers, old \in OldSlugArgs, force \in BOOLEAN :
           StartUpdate(id, old, force)
    \/ InfoOk
    \/ InfoFail
    \/ UpdScrapeOk
    \/ UpdScrapeFail
    \/ UpdSaveOpenOk
    \/ UpdSaveOpenFail
    \/ UpdSaveDumpOk
    \/ UpdSaveDumpFail
    \/ RemoveOldOk
    \/ RemoveOldFail
    \/ RemoveNewOk
    \/ RemoveNewFail
    \/ EmbedOk
    \/ EmbedFail
    \/ TrackOk
    \/ TrackFail
    \/ PickleOk
    \/ PickleFail
    \/ UpsertOk
    \/ UpsertFail
    \/ DeleteOk
    \/ DeleteFail

SpecUpdate == InitUpdate /\ [][NextUpdate]_vars

\* The calls start with a ledger whose every slug has a vector in the index.
InitLedger ==
    /\ InitUpdate
    /\ \A k \in 1..Len(tracking_file) : tracking_file[k].slug \in DOMAIN index

SpecLedger == InitLedger /\ [][NextUpdate]_vars

\* ------------------------------------------------------------------ one store, both operations
\* The ArticleProcessor of an ArticleUpdater (article_updater.py:15) serves bulk
\* syncs with the default max_pages and single-article updates that do not
\* re-embed; the site shows one listing page.
InitStore ==
    /\ source \in {<<listing>> : listing \in ListingPages}
    /\ store_file \in InitialFiles
    /\ articles = LoadExistingArticles(store_file)
    /\ pc = "idle"
    /\ InitSyncFrame
    /\ InitObs
    /\ processed_articles = <<>> /\ tracking_file = <<>> /\ index = EmptyMap
    /\ InitUpdFrame
    /\ InitUpdObs
    /\ InitDirect

NextStore ==
    \/ \E se \in BOOLEAN : StartSync(None, se)
    \/ GetPageCountOk
    \/ GetPageCountFail
    \/ GetArticlesOnPageOk
    \/ GetArticlesOnPageFail
    \/ ScrapeOk
    \/ ScrapeFail
    \/ SaveOpenOk
    \/ SaveOpenFail
    \/ SaveDumpOk
    \/ SaveDumpFail
    \/ \E id \in Identifiers, old \in OldSlugArgs : StartUpdate(id, old, FALSE)
    \/ InfoOk
    \/ InfoFail
    \/ UpdScrapeOk
    \/ UpdScrapeFail
    \/ UpdSaveOpenOk
    \/ UpdSaveOpenFail
    \/ UpdSaveDumpOk
    \/ UpdSaveDumpFail

SpecStore == InitStore /\ [][NextStore]_vars

\* ------------------------------------------------------------------ two instances, one file
\* Mutant: the save writes the record just scraped, not the whole mapping.
DumpedRecord(mapping, slug) == [s \in {slug} |-> mapping[slug]]

\* article_processor.py:65  json.dump(self.articles, f): the whole mapping
Dumped(mapping, slug) == mapping

InitWriters ==
    /\ source = <<>>
    /\ store_file \in InitialFiles
    /\ articles = EmptyMap
    /\ pc = "idle"
    /\ InitSyncFrame
    /\ InitObs
    /\ tracking_file = <<>> /\ processed_articles = <<>> /\ index = EmptyMap
    /\ InitUpdFrame
    /\ InitUpdObs
    /\ InitDirect

WriterFrame ==
    <<source, articles, pc, syncVars, obsVars, updVars, embedCall, metaCall,
      chartCall, upsert, textCall>>

\* article_processor.py:47-60  a process constructs its ArticleProcessor, which
\* loads the file into its own self.articles
WriterConstruct(w) ==
    /\ writers[w].pc = "new"
    /\ store_file.st # "partial"
    /\ writers' = [writers EXCEPT ![w].articles = LoadExistingArticles(store_file),
                                  ![w].pc = "idle"]
    /\ UNCHANGED <<WriterFrame, store_file, last_saver>>

\* article_processor.py:148-150, article_updater.py:67-69  the instance takes up a slug
WriterStart(w, s) ==
    /\ writers[w].pc = "idle"
    /\ writers' = [writers EXCEPT ![w].slug = s, ![w].pc = "scrape"]
    /\ UNCHANGED <<WriterFrame, store_file, last_saver>>

\* article_processor.py:150-155, article_updater.py:69-72  scraped, put into its
\* own self.articles
WriterScrape(w) ==
    /\ writers[w].pc = "scrape"
    /\ writers' = [writers EXCEPT
                       ![w].articles = Put(@, writers[w].slug, Content(writers[w].slug)),
                       ![w].pc = "save_open"]
    /\ UNCHANGED <<WriterFrame, store_file, last_saver>>

\* article_processor.py:64  open(articles_path, 'w'): no lock is taken
WriterOpen(w) ==
    /\ writers[w].pc = "save_open"
    /\ store_file' = PartialFile
    /\ writers' = [writers EXCEPT ![w].pc = "save_dump"]
    /\ UNCHANGED <<WriterFrame, last_saver>>

\* article_processor.py:65  json.dump wrote this instance's mapping
WriterDump(w) ==
    /\ writers[w].pc = "save_dump"
    /\ store_file' = ValidFile(Dumped(writers[w].articles, writers[w].slug))
    /\ writers' = [writers EXCEPT ![w].pc = "idle",
                                  ![w].saved = @ \cup {writers[w].slug}]
    /\ last_saver' = w
    /\ UNCHANGED WriterFrame

NextWriters ==
    \E w \in Writers :
        \/ WriterConstruct(w)
        \/ \E s \in Slugs : WriterStart(w, s)
        \/ WriterScrape(w)
        \/ WriterOpen(w)
        \/ WriterDump(w)

SpecWriters == InitWriters /\ [][NextWriters]_vars

\* ------------------------------------------------------------------ _prepare_text_for_embedding
\* The characters of an article's text: a letter, a full stop, a newline.
Chars == {"x", ".", "\n"}

Texts == SeqsUpTo(Chars, MaxText)

ChunkSizes == 0..MaxChunk

\* '...'
Marker == <<".", ".", ".">>

\* str.split(sep): the pieces between the separators, empty pieces included
RECURSIVE Split(_, _)
Split(s, sep) ==
    IF \A k \in 1..Len(s) : s[k] # sep
    THEN <<s>>
    ELSE LET k == CHOOSE j \in 1..Len(s) :
                      s[j] = sep /\ \A h \in 1..(j - 1) : s[h] # sep
         IN  <<SubSeq(s, 1, k - 1)>> \o Split(SubSeq(s, k + 1, Len(s)), sep)

\* sep.join(parts)
RECURSIVE Join(_, _)
Join(parts, sep) ==
    IF parts = <<>> THEN <<>>
    ELSE IF Len(parts) = 1 THEN parts[1]
    ELSE parts[1] \o <<sep>> \o Join(Tail(parts), sep)

\* s[:n] for n >= 0
Take(s, n) == SubSeq(s, 1, Min(n, Len(s)))

\* embedding_processor.py:92-93  ' '.join(article['text'].split('\n')[:3])
InitialParagraphs(text) == Join(Take(Split(text, "\n"), 3), " ")

\* Mutant: the cut keeps one character more than the budget.
TruncatedLoose(s, n) == Take(s, n + 1) \o Marker

\* embedding_processor.py:95  initial_paragraphs[:self.text_chunk_size] + '...'
Truncated(s, n) == Take(s, n) \o Marker

InitText ==
    /\ source = <<>>
    /\ store_file = AbsentFile
    /\ articles = EmptyMap
    /\ pc = "idle"
    /\ InitSyncFrame
    /\ InitObs
    /\ tracking_file = <<>> /\ processed_articles = <<>> /\ index = EmptyMap
    /\ InitUpdFrame
    /\ InitUpdObs
    /\ InitDirect

\* embedding_processor.py:92-95
PrepareText(text, n) ==
    /\ pc = "idle"
    /\ LET initial_paragraphs == InitialParagraphs(text)
           cut == Len(initial_paragraphs) > n
       IN  prep' = [text |-> text, text_chunk_size |-> n,
                    initial_paragraphs |-> IF cut THEN Truncated(initial_paragraphs, n)
                                                 ELSE initial_paragraphs,
                    cut |-> cut]
    /\ pc' = "prepared"
    /\ UNCHANGED <<envVars, articles, syncVars, obsVars, updVars, embedCall, metaCall,
                   chartCall, upsert, writerVars>>

NextText == \E text \in Texts, n \in ChunkSizes : PrepareText(text, n)

SpecText == InitText /\ [][NextText]_vars

\* ------------------------------------------------------------------ process_articles
\* The keys of a dict, in iteration order: no key twice.
DictKeys ==
    {s \in SeqsUpTo(Slugs, Cardinality(Slugs)) : \A i, j \in 1..Len(s) : s[i] = s[j] => i = j}

\* embedding_processor.py:120-122  entry of process_articles, first loop test
StartProcess(data, force) ==
    /\ Resting
    /\ calls < MaxCalls
    /\ calls' = calls + 1
    /\ articles_data' = data /\ force_reembed' = force
    /\ new_embeddings' = <<>>
    /\ item' = 1 /\ skipped' = {} /\ ledger0' = processed_articles
    /\ failed' = {}
    /\ pc' = IF data = <<>> THEN "processed" ELSE "p_embed"
    /\ UNCHANGED <<envVars, articles, syncVars, obsVars, embVars, url, old_slug,
                   new_slug, content, result, index0, before, index_log, metaCall, chartCall, upsert, writerVars, textCall>>

\* embedding_processor.py:122,164  next key of the dict, else return the frame
NextItem ==
    IF item < Len(articles_data)
    THEN item' = item + 1 /\ pc' = "p_embed"
    ELSE item' = item /\ pc' = "processed"

\* embedding_processor.py:123-125  the article is skipped
ProcSkip ==
    /\ pc = "p_embed"
    /\ AlreadyProcessed(articles_data[item], processed_articles, force_reembed)
    /\ skipped' = skipped \cup {articles_data[item]}
    /\ NextItem
    /\ UNCHANGED <<envVars, articles, syncVars, obsVars, embVars, updFrame, updObs,
                   articles_data, ledger0, metaCall, chartCall, upsert, writerVars, textCall>>

\* embedding_processor.py:127-157  the embedding came back: the record and the ledger
\* row are appended in memory
ProcEmbedOk ==
    /\ pc = "p_embed"
    /\ ~AlreadyProcessed(articles_data[item], processed_articles, force_reembed)
    /\ new_embeddings' = Append(new_embeddings,
                                EmbeddingRecord(articles_data[item], Content(articles_data[item])))
    /\ processed_articles' = Append(processed_articles, LedgerRow(articles_data[item]))
    /\ pc' = "p_track"
    /\ UNCHANGED <<envVars, articles, syncVars, obsVars, tracking_file, index, url,
                   old_slug, force_reembed, new_slug, content, result, updObs,
                   directVars>>

\* embedding_processor.py:129-130, 160-162  the embedding raised: printed, next key
ProcEmbedFail ==
    /\ pc = "p_embed"
    /\ ~AlreadyProcessed(articles_data[item], processed_articles, force_reembed)
    /\ Fault
    /\ failed' = failed \cup {"embedding"}
    /\ NextItem
    /\ UNCHANGED <<envVars, articles, syncVars, fetched, attempts, start_store, prev,
                   embVars, updFrame, calls, index0, before, index_log, articles_data, skipped,
                   ledger0, metaCall, chartCall, upsert, writerVars, textCall>>

\* embedding_processor.py:158  the ledger file is rewritten from memory
ProcTrackOk ==
    /\ pc = "p_track"
    /\ tracking_file' = processed_articles
    /\ NextItem
    /\ UNCHANGED <<envVars, articles, syncVars, obsVars, processed_articles, index,
                   updFrame, updObs, articles_data, skipped, ledger0, metaCall,
                   chartCall, upsert, writerVars, textCall>>

\* embedding_processor.py:158, 160-162  the write raised: printed, next key
ProcTrackFail ==
    /\ pc = "p_track"
    /\ Fault
    /\ LedgerWriteFailed
    /\ failed' = failed \cup {"ledger write"}
    /\ NextItem
    /\ UNCHANGED <<envVars, articles, syncVars, fetched, attempts, start_store, prev,
                   processed_articles, index, updFrame, calls, index0, before, index_log,
                   articles_data, skipped, ledger0, metaCall, chartCall, upsert, writerVars, textCall>>

NextEmbed ==
    \/ \E data \in DictKeys, force \in BOOLEAN : StartProcess(data, force)
    \/ ProcSkip
    \/ ProcEmbedOk
    \/ ProcEmbedFail
    \/ ProcTrackOk
    \/ ProcTrackFail

\* ArticleEmbeddingProcessor.__init__ loads the ledger file (embedding_processor.py:71).
SpecEmbed == InitUpdate /\ [][NextEmbed]_vars

\* ------------------------------------------------------------------ update_article_metadata
\* pinecone_manager.py:121
ValidKeys ==
    {"title", "date", "date_timestamp", "url", "main_category",
     "secondary_categories", "charts", "teaser"}

\* The keys a caller may put into the mapping: the valid ones and two others.
MetadataKeys == ValidKeys \cup {"slug", "embedding"}
MetadataArgs == {md \in SUBSET MetadataKeys : Cardinality(md) <= MaxKeys}

\* pinecone_manager.py:126-129  what index.update(id, set_metadata) does to the index
SetMetadata(idx0, id, keys) ==
    IF id \in DOMAIN idx0 /\ keys # {}
    THEN [idx0 EXCEPT ![id].rev = "edited"]
    ELSE idx0

\* PineconeManager.__init__ (pinecone_manager.py:21-46) connects to the index as
\* earlier runs left it.
InitMetadata ==
    /\ source = <<>>
    /\ store_file = AbsentFile
    /\ articles = EmptyMap
    /\ pc = "idle"
    /\ InitSyncFrame
    /\ InitObs
    /\ tracking_file = <<>> /\ processed_articles = <<>>
    /\ index \in {[s \in K |-> OldContent(s)] : K \in SUBSET Slugs}
    /\ InitUpdFrame
    /\ InitUpdObs
    /\ InitDirect

\* pinecone_manager.py:118  entry of update_article_metadata
StartMetadata(id, md) ==
    /\ Resting
    /\ calls < MaxCalls
    /\ calls' = calls + 1
    /\ meta_slug' = id /\ metadata' = md
    /\ result' = "none"
    /\ index0' = index /\ before' = before /\ index_log' = <<>>
    /\ pc' = "m_validate"
    /\ UNCHANGED <<envVars, articles, syncVars, obsVars, embVars, url, old_slug,
                   force_reembed, new_slug, content, new_embeddings, failed,
                   embedCall, chartCall, upsert, writerVars, textCall>>

\* Mutant: one valid key is enough to pass the validation.
MetaValidLoose ==
    /\ pc = "m_validate"
    /\ metadata \cap ValidKeys # {}
    /\ pc' = "m_update"
    /\ UNCHANGED <<envVars, articles, syncVars, obsVars, embVars, updFrame, updObs,
                   directVars>>

\* pinecone_manager.py:122-124  every key is in valid_keys: the loop falls through
MetaValid ==
    /\ pc = "m_validate"
    /\ metadata \subseteq ValidKeys
    /\ pc' = "m_update"
    /\ UNCHANGED <<envVars, articles, syncVars, obsVars, embVars, updFrame, updObs,
                   directVars>>

\* pinecone_manager.py:122-124  a key outside valid_keys: ValueError
MetaInvalid ==
    /\ pc = "m_validate"
    /\ \E key \in metadata : key \notin ValidKeys
    /\ result' = "ValueError"
    /\ pc' = "metadata_done"
    /\ UNCHANGED <<envVars, articles, syncVars, obsVars, embVars, url, old_slug,
                   force_reembed, new_slug, content, new_embeddings, updObs,
                   directVars>>

\* pinecone_manager.py:126-130  index.update returned
MetaUpdateOk ==
    /\ pc = "m_update"
    /\ index' = SetMetadata(index, meta_slug, metadata)
    /\ index_log' = Append(index_log, [op |-> "update", id |-> meta_slug])
    /\ result' = "None"
    /\ pc' = "metadata_done"
    /\ UNCHANGED <<envVars, articles, syncVars, obsVars, processed_articles,
                   tracking_file, url, old_slug, force_reembed, new_slug, content,
                   new_embeddings, calls, failed, index0, before, directVars>>

\* pinecone_manager.py:126-130  index.update was issued and raised
MetaUpdateFail ==
    /\ pc = "m_update"
    /\ Fault
    /\ index_log' = Append(index_log, [op |-> "update", id |-> meta_slug])
    /\ result' = "raised"
    /\ pc' = "metadata_done"
    /\ UNCHANGED <<envVars, articles, syncVars, fetched, attempts, start_store, prev,
                   embVars, url, old_slug, force_reembed, new_slug, content,
                   new_embeddings, calls, failed, index0, before, directVars>>

NextMetadata ==
    \/ /\ Resting
       /\ \E id \in Slugs, md \in MetadataArgs : StartMetadata(id, md)
    \/ MetaValid
    \/ MetaInvalid
    \/ MetaUpdateOk
    \/ MetaUpdateFail

SpecMetadata == InitMetadata /\ [][NextMetadata]_vars

\* ------------------------------------------------------------------ _extract_charts
\* A chart section of the page gives a title (the text of the sibling before it) and
\* a source (the text of the sibling after it); either sibling may be missing.
Titles == {"GDP growth", "Inflation"}
Sources == {"ONS", "Bank of England"}
Missing == "no sibling"
ChartSections == (Titles \cup {Missing}) \X (Sources \cup {Missing})

WellFormed(secs) ==
    \A i \in 1..Len(secs) : secs[i][1] # Missing /\ secs[i][2] # Missing

\* Mutant: the position of the last occurrence.
LastIndex(list, x) ==
    CHOOSE i \in 1..Len(list) :
        list[i] = x /\ \A j \in (i + 1)..Len(list) : list[j] # x

\* list.index(x): the position of the first occurrence
Index(list, x) ==
    CHOOSE i \in 1..Len(list) :
        list[i] = x /\ \A j \in 1..(i - 1) : list[j] # x

\* article_processor.py:206  sorted(set(charts_info), key=charts_info.index)
SortedSetByIndex(charts_info) ==
    LET set == Range(charts_info)
    IN CHOOSE s \in [1..Cardinality(set) -> set] :
           /\ Range(s) = set
           /\ \A i, j \in 1..Len(s) :
                  i < j => Index(charts_info, s[i]) <= Index(charts_info, s[j])

InitCharts ==
    /\ source = <<>>
    /\ store_file = AbsentFile
    /\ articles = EmptyMap
    /\ pc = "idle"
    /\ InitSyncFrame
    /\ InitObs
    /\ tracking_file = <<>> /\ processed_articles = <<>> /\ index = EmptyMap
    /\ InitUpdFrame
    /\ InitUpdObs
    /\ articles_data = <<>> /\ item = 1 /\ skipped = {} /\ ledger0 = <<>>
    /\ meta_slug = "" /\ metadata = {}
    /\ sections \in SeqsUpTo(ChartSections, MaxCharts)
    /\ charts = <<>>
    /\ upsert = NoUpsert
    /\ writers = NoWriters /\ last_saver = 0
    /\ prep = NoPrep

\* article_processor.py:195-206  every section gave its pair: de-duplicated list
ExtractChartsOk ==
    /\ pc = "idle"
    /\ WellFormed(sections)
    /\ charts' = SortedSetByIndex(sections)
    /\ pc' = "extracted"
    /\ UNCHANGED <<envVars, articles, syncVars, obsVars, updVars, embedCall, metaCall,
                   sections, upsert, writerVars, textCall>>

\* article_processor.py:207-209  a sibling lookup raised: warning, empty list
ExtractChartsRaises ==
    /\ pc = "idle"
    /\ ~WellFormed(sections)
    /\ charts' = <<>>
    /\ pc' = "extracted"
    /\ UNCHANGED <<envVars, articles, syncVars, obsVars, updVars, embedCall, metaCall,
                   sections, upsert, writerVars, textCall>>

NextCharts ==
    \/ ExtractChartsOk
    \/ ExtractChartsRaises

SpecCharts == InitCharts /\ [][NextCharts]_vars

\* ------------------------------------------------------------------ upsert_articles
\* The frames a caller may pass: rows as process_articles builds them.
EmbeddingFrames ==
    SeqsUpTo({EmbeddingRecord(s, Content(s)) : s \in Slugs}, MaxRecords)

\* pinecone_manager.py:87  the batch count shown by the progress bar
TotalBatches(n, bs) == (n \div bs) + (IF n % bs # 0 THEN 1 ELSE 0)

\* pinecone_manager.py:90  embeddings_df.iloc[i:i+batch_size]
BatchDf(df, i0, bs) == SubSeq(df, i0 + 1, Min(i0 + bs, Len(df)))

\* Mutant: the loop steps one row too far.
NextBatchSkips(i0, bs) == i0 + bs + 1

\* pinecone_manager.py:89  range(0, len(embeddings_df), batch_size)
NextBatch(i0, bs) == i0 + bs

\* pinecone_manager.py:93-113  the ids of the Vector objects of one batch
VectorIds(rows) == [k \in 1..Len(rows) |-> rows[k].slug]

\* PineconeManager.__init__ (pinecone_manager.py:21-46)
InitUpsert == InitMetadata

\* pinecone_manager.py:64-89  entry of upsert_articles; the fetches of the verbose
\* report change nothing and their failures are swallowed (lines 73-83)
StartUpsert(df, bs) ==
    /\ Resting
    /\ calls < MaxCalls
    /\ calls' = calls + 1
    /\ upsert' = [embeddings_df |-> df, batch_size |-> bs, i |-> 0, batches |-> <<>>]
    /\ index0' = index /\ before' = before /\ index_log' = <<>>
    /\ IF Len(df) > 0
       THEN pc' = "b_upsert" /\ result' = "none"
       ELSE pc' = "upserted" /\ result' = "None"
    /\ UNCHANGED <<envVars, articles, syncVars, obsVars, embVars, url, old_slug,
                   force_reembed, new_slug, content, new_embeddings, failed,
                   embedCall, metaCall, chartCall, writerVars, textCall>>

\* pinecone_manager.py:89-116  one batch is built and index.upsert returns
UpsertBatchOk ==
    /\ pc = "b_upsert"
    /\ LET batch == BatchDf(upsert.embeddings_df, upsert.i, upsert.batch_size)
           next == NextBatch(upsert.i, upsert.batch_size)
       IN /\ index' = UpsertAll(index, batch)
          /\ index_log' = index_log \o UpsertLog(batch)
          /\ upsert' = [upsert EXCEPT !.i = next,
                                      !.batches = Append(@, VectorIds(batch))]
          /\ IF next < Len(upsert.embeddings_df)
             THEN pc' = "b_upsert" /\ UNCHANGED result
             ELSE pc' = "upserted" /\ result' = "None"
    /\ UNCHANGED <<envVars, articles, syncVars, obsVars, processed_articles,
                   tracking_file, url, old_slug, force_reembed, new_slug, content,
                   new_embeddings, calls, failed, index0, before, embedCall, metaCall,
                   chartCall, writerVars, textCall>>

\* pinecone_manager.py:116  index.upsert raised: no handler, the exception leaves
\* upsert_articles; the batch may or may not have reached the index
UpsertBatchFail ==
    /\ pc = "b_upsert"
    /\ Fault
    /\ LET batch == BatchDf(upsert.embeddings_df, upsert.i, upsert.batch_size)
       IN /\ index' \in {index, UpsertAll(index, batch)}
          /\ upsert' = [upsert EXCEPT !.batches = Append(@, VectorIds(batch))]
    /\ result' = "raised"
    /\ pc' = "upserted"
    /\ UNCHANGED <<envVars, articles, syncVars, fetched, attempts, start_store, prev,
                   processed_articles, tracking_file, url, old_slug, force_reembed,
                   new_slug, content, new_embeddings, calls, failed, index0, before,
                   index_log, embedCall, metaCall, chartCall, writerVars, textCall>>

NextUpsert ==
    \/ /\ Resting
       /\ \E df \in EmbeddingFrames, bs \in 1..MaxBatch : StartUpsert(df, bs)
    \/ UpsertBatchOk
    \/ UpsertBatchFail

SpecUpsert == InitUpsert /\ [][NextUpsert]_vars

\* ------------------------------------------------------------------ observations
AttemptSlugs == [i \in 1..Len(attempts) |-> attempts[i].slug]

OkAttempts == {i \in 1..Len(attempts) : attempts[i].ok}

OkSlugs == {attempts[i].slug : i \in OkAttempts}

Positions(as) == [i \in 1..Len(as) |-> <<as[i].page, as[i].idx>>]

RECURSIVE PagePositions(_)
PagePositions(f) ==
    IF f = <<>> THEN <<>>
    ELSE LET last == f[Len(f)]
         IN PagePositions(SubSeq(f, 1, Len(f) - 1))
                \o [i \in 1..Len(last.stubs) |-> <<last.page, i>>]

NoRepeat(s) == \A i, j \in 1..Len(s) : s[i] = s[j] => i = j

\* ------------------------------------------------------------------ bulk sync claims

C4_Original ==
    (pc = "returned" /\ prev.kind = "crashed" /\ prev.saved # {})
        => /\ \A i \in 1..Len(attempts) : attempts[i].slug \notin prev.saved
           /\ \A p \in 1..total_pages : \A j \in 1..Len(source[p]) :
                  source[p][j] \notin DOMAIN start_store
                      => source[p][j] \in Range(AttemptSlugs)

\* C4 (amended): with skip_existing a restarted run scrapes no article that is
\* already persisted and scrapes every unpersisted article of the pages it walks,
\* and it walks no further than the first page whose stubs are all in the store;
\* without skip_existing every page it walks is either fully in the store (and ends
\* the walk) or scraped whole, persisted articles included.
C4_Resume ==
    (pc = "returned" /\ prev.kind = "crashed")
        => /\ Len(fetched) < total_pages
                  => /\ Len(fetched) >= 1
                     /\ Range(source[Len(fetched)]) \subseteq DOMAIN articles
           /\ skip_existing
                  => /\ \A i \in 1..Len(attempts) :
                            attempts[i].slug \notin DOMAIN start_store
                     /\ \A k \in 1..Len(fetched) : \A j \in 1..Len(source[k]) :
                            source[k][j] \notin DOMAIN start_store
                                => source[k][j] \in Range(AttemptSlugs)
           /\ ~skip_existing
                  => /\ Positions(attempts) = PagePositions(fetched)
                     /\ \A k \in 1..Len(fetched) :
                            \/ fetched[k].stubs = source[k]
                            \/ /\ fetched[k].stubs = <<>>
                               /\ k = Len(fetched)
                               /\ Range(source[k]) \subseteq DOMAIN articles

C4_Witness ==
    /\ pc = "returned" /\ prev.kind = "crashed" /\ skip_existing
    /\ prev.mp = max_pages /\ prev.se = skip_existing
    /\ prev.saved # {}
    /\ attempts # <<>>
    /\ \E k \in 1..Len(fetched) : Range(source[k]) \cap prev.saved # {}

\* C6: a failed scrape neither aborts nor repeats anything: when update_articles
\* has returned (or a listing fetch has raised) every stub of every page it took up
\* was attempted exactly once and in order, the pages were walked 1, 2, ... up to
\* the page limit or the early stop, and the counts are those of the good scrapes.
C6_FailureNotFatal ==
    /\ pc \in {"returned", "raised"}
          => /\ Positions(attempts) = PagePositions(fetched)
             /\ \A i \in 1..Len(attempts) :
                    attempts[i].slug = fetched[attempts[i].page].stubs[attempts[i].idx]
             /\ \A k \in 1..Len(fetched) :
                    /\ fetched[k].page = k
                    /\ ~skip_existing => fetched[k].stubs \in {<<>>, source[k]}
    /\ pc = "returned"
          => /\ \/ Len(fetched) = total_pages
                \/ Len(fetched) >= 1 /\ fetched[Len(fetched)].stubs = <<>>
             /\ new_articles + updated_articles = Cardinality(OkAttempts)

C6_Witness ==
    /\ pc = "returned"
    /\ \E i \in 1..Len(attempts) :
          /\ ~attempts[i].ok
          /\ i < Len(attempts)
          /\ attempts[i + 1].page = attempts[i].page
          /\ attempts[Len(attempts)].page > attempts[i].page

\* C7 (as stated): whenever the process has died, the store file holds a complete
\* mapping.
C7_Claim == pc = "dead" => store_file.st # "partial"

\* C8 (as stated): between two per-article steps of a bulk sync every counted
\* article has been written out and the store file equals self.articles.
C8_Claim ==
    (pc \in {"scrape", "get_articles_on_page", "returned"} /\ attempts # <<>>)
        => /\ \A i \in OkAttempts : attempts[i].saved
           /\ store_file = ValidFile(articles)

\* The example of C9: two pages, page 2 fully known at the start, skip_existing.
C9_Scenario ==
    /\ pc = "returned"
    /\ Len(source) = 2
    /\ skip_existing
    /\ Range(source[2]) \subseteq DOMAIN start_store

\* C9 (as stated): in the scenario exactly the new stubs of page 1 are scraped and
\* the result is (k, 0), k the number of new stubs on page 1.
C9_Original ==
    C9_Scenario
        => /\ AttemptSlugs = NotInStore(source[1], start_store)
           /\ new_articles = Len(NotInStore(source[1], start_store))
           /\ updated_articles = 0

\* C9 (amended): in the scenario exactly the new stubs of page 1 are scraped, none
\* of page 2; new counts the distinct slugs scraped successfully and updated the
\* further successful scrapes of a repeated slug, so the result is (k, 0) when all
\* k scrapes succeed and page 1 lists no new slug twice.
C9_Example ==
    C9_Scenario
        => /\ AttemptSlugs = NotInStore(source[1], start_store)
           /\ \A i \in 1..Len(attempts) : attempts[i].page = 1
           /\ new_articles = Cardinality(OkSlugs)
           /\ new_articles + updated_articles = Cardinality(OkAttempts)
           /\ (AllOk(attempts) /\ NoRepeat(AttemptSlugs))
                  => /\ new_articles = Len(NotInStore(source[1], start_store))
                     /\ updated_articles = 0

C9_Witness ==
    /\ C9_Scenario
    /\ source[2] # <<>>
    /\ Len(fetched) = 2
    /\ AllOk(attempts) /\ NoRepeat(AttemptSlugs)
    /\ new_articles >= 1


\* ------------------------------------------------------------------ single-article claims
OldSlug == CHOOSE x \in old_slug : TRUE

RowsOf(rows, slug, model) ==
    {i \in 1..Len(rows) : rows[i].slug = slug /\ rows[i].embedding_model = model}

\* The steps C5 lists.
ListedSteps ==
    {"stub fetch", "content scrape", "store save", "ledger removal", "embedding",
     "snapshot write", "vector upsert", "vector delete"}

\* C1 (as stated): whenever update_single_article(identifier, old_slug = X,
\* force_reembed = True) has returned True, the store (in memory and on file) and
\* the vector index hold the new slug and do not hold X.
C1_Claim ==
    (pc = "updated" /\ result = "True" /\ force_reembed /\ old_slug # None)
        => /\ new_slug \in DOMAIN articles /\ OldSlug \notin DOMAIN articles
           /\ store_file.st = "valid"
           /\ new_slug \in DOMAIN store_file.map /\ OldSlug \notin DOMAIN store_file.map
           /\ new_slug \in DOMAIN index /\ OldSlug \notin DOMAIN index

\* C26 (as stated): whenever update_single_article has returned True, for any
\* identifier, old_slug and force_reembed, the store holds a record under the new
\* slug, in memory and on file.
C26_Claim ==
    (pc = "updated" /\ result = "True")
        => /\ new_slug \in DOMAIN articles
           /\ store_file.st = "valid"
           /\ new_slug \in DOMAIN store_file.map

\* C2 (as stated): after remove_from_tracking(slug) and a successful forced
\* process_articles of that slug, the ledger (file and memory) holds exactly one
\* entry for the slug under the current model.
C2_Claim ==
    (pc \in {"u_pickle", "u_upsert", "u_delete", "updated"}
        /\ force_reembed /\ new_embeddings # <<>> /\ "ledger write" \notin failed)
        => /\ Cardinality(RowsOf(tracking_file, new_slug, EmbeddingModel)) = 1
           /\ Cardinality(RowsOf(processed_articles, new_slug, EmbeddingModel)) = 1

\* C5: update_single_article ends by returning a boolean, never by raising, and
\* the boolean is False when one of the listed steps failed.
C5_NeverRaises ==
    /\ result \in {"none", "True", "False"}
    /\ pc = "updated"
          => /\ result \in {"True", "False"}
             /\ failed \cap ListedSteps # {} => result = "False"

C5_Witness ==
    /\ pc = "updated" /\ result = "False"
    /\ failed \cap ListedSteps # {}

\* C10: when the embedding step of a forced update produced no result, the call
\* returns False and the vector index has seen no upsert and no delete.
C10_EmbeddingFailed ==
    (pc = "updated" /\ force_reembed /\ "embedding" \in failed)
        => /\ result = "False"
           /\ index = index0
           /\ index_log = <<>>

C10_Witness ==
    /\ pc = "updated" /\ force_reembed /\ "embedding" \in failed
    /\ old_slug # None /\ OldSlug \in DOMAIN index /\ OldSlug # new_slug

SlugsOf(rows) == {rows[i].slug : i \in 1..Len(rows)}

\* C11 (as stated): whenever a rename update with force_reembed = True has returned
\* True, the ledger file holds no entry for old_slug.
C11_Claim ==
    (pc = "updated" /\ result = "True" /\ force_reembed
        /\ old_slug # None /\ OldSlug # new_slug)
        => OldSlug \notin SlugsOf(tracking_file)

\* C27 (as stated): starting with every ledger slug present in the vector index,
\* between update_single_article calls (any external call may have failed) every
\* slug with a ledger entry has an entry in the vector index.
C27_Claim ==
    pc \in {"idle", "updated"} => SlugsOf(tracking_file) \subseteq DOMAIN index

\* C28 (as stated): whenever update_single_article has returned False, the store,
\* the embedding ledger and the vector index hold exactly what they held when the
\* call began.
C28_Claim ==
    (pc = "updated" /\ result = "False")
        => /\ articles = before.articles
           /\ store_file = before.store_file
           /\ tracking_file = before.tracking_file
           /\ processed_articles = before.processed_articles
           /\ index = index0

\* C12 (as stated): process_articles without force_reembed skips an article exactly
\* when the ledger holds an entry for its slug under the current embedding model.
C12_Claim ==
    (pc = "processed" /\ ~force_reembed)
        => \A i \in 1..Len(articles_data) :
               articles_data[i] \in skipped
                   <=> RowsOf(ledger0, articles_data[i], EmbeddingModel) # {}

\* C29 (as stated): with skip_existing = True, when update_articles has returned it
\* has scraped each slug at most once, also when a page lists a slug more than
\* once, and updated_count is 0. A scrape that failed is not held against the
\* claim: only scrapes that returned a record are counted.
C29_Claim ==
    (pc = "returned" /\ skip_existing)
        => /\ \A i, j \in OkAttempts : attempts[i].slug = attempts[j].slug => i = j
           /\ updated_articles = 0

\* The slugs of the store as persisted.
PersistedSlugs == IF store_file.st = "valid" THEN DOMAIN store_file.map ELSE {}

\* The good scrapes whose record a completed save of this run wrote out: the save
\* of that scrape or of a later one (every save writes the whole mapping).
PersistedAttempts ==
    {i \in OkAttempts : \E j \in i..Len(attempts) : attempts[j].saved}

\* Every failure so far fell within the current run, so when the run began the
\* file held exactly the mapping the run began with.
FailuresInThisRun ==
    faults = Cardinality({i \in 1..Len(attempts) : ~attempts[i].saved})

\* C30 (as stated): when update_articles has returned (new, updated), new is the
\* number of slugs in the persisted store that were absent before the run, and
\* new + updated is the number of scrapes whose record was persisted during the
\* run, whatever scrapes or saves failed.
C30_Claim ==
    (pc = "returned" /\ FailuresInThisRun)
        => /\ new_articles = Cardinality(PersistedSlugs \ DOMAIN start_store)
           /\ new_articles + updated_articles = Cardinality(PersistedAttempts)

\* ------------------------------------------------------------------ page walk claims
MaxPagesGiven == CHOOSE n \in max_pages : TRUE

\* C13 (as stated): with max_pages given (any integer >= 0), update_articles fetches
\* at most min(total pages of the source, max_pages) listing pages.
C13_Claim ==
    max_pages # None => Len(fetched) <= Min(Len(source), MaxPagesGiven)

\* An exception leaves get_page_count or get_articles_on_page in this step.
ListingFailure ==
    /\ pc \in {"get_page_count", "get_articles_on_page"}
    /\ faults' = faults + 1
    /\ pc' # "dead"

\* C14: a failure to determine the page count or to fetch a listing page, on
\* whichever page, leaves update_articles as an exception: the call does not return
\* counts, and scrapes and saves nothing more.
C14_ListingFailureFatal ==
    [][ListingFailure
          => /\ pc' = "raised"
             /\ UNCHANGED <<articles, store_file, attempts, fetched>>]_vars

C14_Witness ==
    /\ pc = "raised"
    /\ Len(fetched) >= 1 /\ page = 2
    /\ new_articles >= 1

\* C16: with no store file the processor starts with the empty mapping, a load
\* fails only on a file that exists and is incomplete, and a bulk sync started on
\* the empty store takes up every stub of the first page, drops from later pages
\* only slugs it has itself scraped, and counts each slug it scrapes as new.
C16_MissingFile ==
    /\ (pc = "idle" /\ store_file.st = "absent") => articles = EmptyMap
    /\ pc = "load_error" => store_file.st = "partial"
    /\ start_store = EmptyMap
          => /\ Len(fetched) >= 1
                   => fetched[1].stubs = source[1]
             /\ \A k \in 1..Len(fetched) :
                    \/ fetched[k].stubs = source[k]
                    \/ Range(source[k]) \ Range(fetched[k].stubs) \subseteq OkSlugs
             /\ new_articles = Cardinality(OkSlugs)

C16_Witness ==
    /\ pc = "save_open"
    /\ store_file.st = "absent" /\ start_store = EmptyMap
    /\ Len(source[1]) >= 2
    /\ Len(attempts) = 1 /\ new_articles = 1

\* A listing page has been fetched in this step and all its slugs are in the store.
MeetsKnownPage ==
    /\ pc = "get_articles_on_page"
    /\ faults' = faults
    /\ Range(source[page]) \subseteq DOMAIN articles

RescrapedOk ==
    {i \in OkAttempts :
        \/ attempts[i].slug \in DOMAIN start_store
        \/ \E j \in OkAttempts : j < i /\ attempts[j].slug = attempts[i].slug}

\* C19: without skip_existing every page taken up that lists an unknown slug is
\* scraped whole, known stubs included; each good scrape of a known slug puts the
\* fresh record in place of the old one and counts as updated.  With skip_existing
\* no stub is scraped whose slug was in the store when its page was fetched.
C19_PageGranular ==
    pc = "returned"
        => /\ ~skip_existing
                  => /\ \A k \in 1..Len(fetched) :
                            \/ fetched[k].stubs = source[k]
                            \/ /\ k = Len(fetched)
                               /\ Range(source[k]) \subseteq DOMAIN articles
                     /\ Positions(attempts) = PagePositions(fetched)
           /\ skip_existing
                  => \A i \in 1..Len(attempts) :
                         /\ attempts[i].slug \notin DOMAIN start_store
                         /\ \A j \in OkAttempts :
                                attempts[j].page < attempts[i].page
                                    => attempts[j].slug # attempts[i].slug
           /\ updated_articles = Cardinality(RescrapedOk)
           /\ \A i \in OkAttempts :
                  articles[attempts[i].slug] = Content(attempts[i].slug)

C19_Witness ==
    /\ pc = "returned" /\ ~skip_existing
    /\ \E i, j \in OkAttempts :
           /\ attempts[i].page = attempts[j].page
           /\ attempts[i].slug \in DOMAIN start_store
           /\ attempts[j].slug \notin DOMAIN start_store
    /\ updated_articles >= 1 /\ new_articles >= 1

\* C23: whatever the source, the store, max_pages and the scrape failures, a call of
\* update_articles fetches the listing pages 1, 2, 3, ... in this order, each once,
\* and returns.
C23_WalkTerminates ==
    /\ [](\A k \in 1..Len(fetched) : fetched[k].page = k)
    /\ [](Len(fetched) <= Len(source))
    /\ (pc = "get_page_count") ~> (pc = "returned")

C23_Witness ==
    /\ pc = "returned"
    /\ Len(fetched) = 2 /\ fetched[2].stubs # <<>>
    /\ \E i \in 1..Len(attempts) : ~attempts[i].ok

\* ------------------------------------------------------------------ store lifecycle claims
\* The slugs this step takes out of self.articles.
Removed == DOMAIN articles \ DOMAIN articles'

\* C22: no step of update_articles takes a slug out of self.articles, and the only
\* step of update_single_article that does is the rename, which takes out nothing
\* but the old_slug it was given.
C22_RemovedOnlyByRename ==
    [][/\ Removed \subseteq old_slug
       /\ Removed # {} => pc = "u_scrape"]_vars

C22_Witness ==
    /\ pc = "updated" /\ result = "True"
    /\ old_slug # None /\ OldSlug # new_slug
    /\ OldSlug \in OkSlugs
    /\ OldSlug \notin DOMAIN articles /\ new_slug \in DOMAIN articles

\* The other instance.
Other(w) == CHOOSE v \in Writers : v # w

\* C24: a save writes the saving instance's own mapping over the file, whatever
\* the file held; so a record the other instance saved, and that the saving
\* instance never loaded or scraped, is no longer in the file.
C24_LastWriterWins ==
    \A w \in Writers :
        (last_saver = w /\ store_file.st = "valid")
            => /\ writers[w].pc \in {"idle", "scrape"}
                     => store_file.map = writers[w].articles
               /\ \A s \in writers[Other(w)].saved :
                      s \notin DOMAIN writers[w].articles
                          => s \notin DOMAIN store_file.map

\* An article instance 1 scraped and saved is absent from the file after the save
\* of instance 2.
C24_Witness ==
    /\ last_saver = 2 /\ store_file.st = "valid"
    /\ writers[1].pc = "idle" /\ writers[2].pc = "idle"
    /\ \E s \in writers[1].saved :
           /\ s \in DOMAIN writers[1].articles
           /\ s \notin DOMAIN store_file.map

EndsWith(s, suffix) ==
    /\ Len(s) >= Len(suffix)
    /\ SubSeq(s, Len(s) - Len(suffix) + 1, Len(s)) = suffix

IsPrefix(s, whole) == Len(s) <= Len(whole) /\ s = SubSeq(whole, 1, Len(s))

\* What the excerpt holds of the body: the excerpt without the appended marker.
BodyPart ==
    IF prep.cut
    THEN SubSeq(prep.initial_paragraphs, 1, Len(prep.initial_paragraphs) - Len(Marker))
    ELSE prep.initial_paragraphs

\* The first three newline-delimited paragraphs of the text, spelt out without
\* split and join: the text up to its third newline, newlines read as spaces.
ThreeParagraphs ==
    LET text == prep.text
        nl   == {k \in 1..Len(text) : text[k] = "\n"}
        stop == IF Cardinality(nl) < 3 THEN Len(text) + 1
                ELSE CHOOSE k \in nl : Cardinality({j \in nl : j < k}) = 2
    IN  [k \in 1..(stop - 1) |-> IF text[k] = "\n" THEN " " ELSE text[k]]

\* C25 as stated: the excerpt is built from at most the first 3 paragraphs, holds
\* at most text_chunk_size characters of body text, and ends with the marker
\* exactly when it was longer than text_chunk_size and was cut.
C25_Original ==
    pc = "prepared" =>
        /\ IsPrefix(BodyPart, ThreeParagraphs)
        /\ Len(BodyPart) <= prep.text_chunk_size
        /\ EndsWith(prep.initial_paragraphs, Marker)
               <=> (Len(ThreeParagraphs) > prep.text_chunk_size /\ prep.cut)

\* C25 amended: as stated, with the marker appended exactly when the excerpt was
\* longer than text_chunk_size; an excerpt that was not cut is the three
\* paragraphs unchanged, whatever they end with.
C25_Truncation ==
    pc = "prepared" =>
        /\ IsPrefix(BodyPart, ThreeParagraphs)
        /\ Len(BodyPart) <= prep.text_chunk_size
        /\ prep.cut <=> Len(ThreeParagraphs) > prep.text_chunk_size
        /\ prep.cut => prep.initial_paragraphs
                           = Take(ThreeParagraphs, prep.text_chunk_size) \o Marker
        /\ ~prep.cut => prep.initial_paragraphs = ThreeParagraphs

\* A text of more than three paragraphs was cut to a budget of at least one
\* character.
C25_Witness ==
    /\ pc = "prepared"
    /\ prep.cut
    /\ prep.text_chunk_size >= 1
    /\ Len(Split(prep.text, "\n")) > 3
    /\ Len(BodyPart) = prep.text_chunk_size

\* ------------------------------------------------------------------ chart claims
FirstAt(list, x) == CHOOSE i \in 1..Len(list) : list[i] = x /\ x \notin Range(SubSeq(list, 1, i - 1))

\* C17: for every list of (title, source) pairs the extracted chart list holds each
\* distinct pair of the input exactly once, in the order of first occurrence.
C17_Dedup ==
    (pc = "extracted" /\ WellFormed(sections))
        => /\ Range(charts) = Range(sections)
           /\ NoRepeat(charts)
           /\ \A i, j \in 1..Len(charts) :
                  i < j => FirstAt(sections, charts[i]) < FirstAt(sections, charts[j])

C17_Witness ==
    /\ pc = "extracted" /\ WellFormed(sections)
    /\ Len(sections) = 3
    /\ sections[3] = sections[1] /\ sections[2] # sections[1]
    /\ charts = <<sections[1], sections[2]>>

\* ------------------------------------------------------------------ vector index claims
\* C20: in every update_single_article call the delete of old_slug from the vector
\* index is issued only after the upsert under the new slug has returned; when the
\* upsert fails nothing is deleted and the index stays as it was.
C20_UpsertBeforeDelete ==
    /\ \A i \in 1..Len(index_log) :
           index_log[i].op = "delete"
               => /\ i = 2
                  /\ index_log[1] = [op |-> "upsert", id |-> new_slug]
                  /\ old_slug # None /\ index_log[i].id = OldSlug
                  /\ "vector upsert" \notin failed
    /\ "vector upsert" \in failed
           => /\ index_log = <<>>
              /\ index = index0
              /\ result = "False"

C20_Witness ==
    /\ pc = "updated" /\ result = "True" /\ force_reembed
    /\ old_slug # None /\ OldSlug # new_slug /\ OldSlug \in DOMAIN index0
    /\ index_log = <<[op |-> "upsert", id |-> new_slug], [op |-> "delete", id |-> OldSlug]>>
    /\ new_slug \in DOMAIN index /\ OldSlug \notin DOMAIN index

RECURSIVE Flatten(_)
Flatten(ss) == IF ss = <<>> THEN <<>> ELSE ss[1] \o Flatten(Tail(ss))

Ceil(n, d) == CHOOSE k \in 0..n : k * d >= n /\ (k = 0 \/ (k - 1) * d < n)

\* C21: upsert_articles hands the rows to index.upsert in ceil(n / batch_size)
\* calls of at most batch_size vectors each, every row in exactly one call, in
\* input order, under its slug; when a call fails the exception reaches the caller
\* and the batches sent before it are in the index.
C21_Batches ==
    pc = "upserted"
        => LET df == upsert.embeddings_df
               sent == upsert.batches
           IN /\ \A k \in 1..Len(sent) : Len(sent[k]) \in 1..upsert.batch_size
              /\ result = "None"
                    => /\ Len(sent) = Ceil(Len(df), upsert.batch_size)
                       /\ Len(sent) = TotalBatches(Len(df), upsert.batch_size)
                       /\ Flatten(sent) = VectorIds(df)
                       /\ \A k \in 1..Len(df) : df[k].slug \in DOMAIN index
              /\ result = "raised"
                    => /\ Len(sent) >= 1
                       /\ Len(sent) <= Ceil(Len(df), upsert.batch_size)
                       /\ Flatten(sent) = SubSeq(VectorIds(df), 1, Len(Flatten(sent)))
                       /\ \A k \in 1..(Len(sent) - 1) : \A j \in 1..Len(sent[k]) :
                              sent[k][j] \in DOMAIN index
              /\ result \in {"None", "raised"}

C21_Witness ==
    /\ pc = "upserted" /\ result = "raised"
    /\ Len(upsert.embeddings_df) = 3 /\ upsert.batch_size = 2
    /\ Len(upsert.batches) = 2
    /\ upsert.batches[1][1] \notin DOMAIN index0
    /\ upsert.batches[1][1] \in DOMAIN index

\* C15: update_article_metadata with a key outside the allowed set raises the
\* validation error without issuing a remote call, leaving the index as it was;
\* with only allowed keys it issues exactly one remote update, for the given slug.
C15_FailFast ==
    /\ pc = "m_update" => index_log = <<>> /\ index = index0
    /\ pc = "metadata_done"
          => IF metadata \subseteq ValidKeys
             THEN /\ index_log = <<[op |-> "update", id |-> meta_slug]>>
                  /\ result \in {"None", "raised"}
             ELSE /\ result = "ValueError"
                  /\ index_log = <<>>
                  /\ index = index0

C15_Witness ==
    /\ pc = "metadata_done" /\ result = "ValueError"
    /\ metadata \cap ValidKeys # {}
    /\ meta_slug \in DOMAIN index

====
